---- MODULE Spec2Model ----
(***************************************************************************)
(* Model of notebooks/02_data_preprocessing.ipynb: the three passes        *)
(* clean_data, standardize_images and split_data over the directory trees  *)
(* data/raw, data/processed and data/{train,val,test}.                     *)
(*                                                                         *)
(* A directory is a function from file names to what is stored under the   *)
(* name.  os.listdir returns the entries in directory order, which is      *)
(* taken to be one fixed order on names (NameOrder, RootOrder); Init       *)
(* ranges over every assignment of entry kinds to names, so every relative *)
(* order of kinds within a listing is covered.                             *)
(***************************************************************************)
EXTENDS Integers, Sequences, FiniteSets, TLC

VARIABLES rawKind,      \* data/raw/<entry>: "dir", "file" or "absent"
          raw,          \* data/raw/<class>/<name>: kind of the entry
          raw0,         \* data/raw as it was before any pass ran
          log,          \* lines printed so far
          procDirs,     \* class directories existing under data/processed
          proc,         \* data/processed/<class>/<name>: image size or NoFile
          train, val, test,  \* data/{train,val,test}/<class>/<name>
          pc,           \* pass that is running: "idle","clean","std","split"
          cleanSt, stdSt, splitSt, \* "new","running","done","raised"
          classesTodo,  \* rest of the os.listdir(source_dir) being iterated
          cur,          \* class_name of the running iteration
          filesTodo,    \* rest of the os.listdir(class_path) being iterated
          handling,     \* img_name whose except-handler has printed
          runs,         \* number of split_data calls started
          sel1,         \* per class, the train list of the first call
          selLast,      \* per class, the train list of the latest call
          train1,       \* data/train when the first call returned
          cn, cres      \* class size and the three list lengths it yields

vars == <<rawKind, raw, raw0, log, procDirs, proc, train, val, test, pc,
          cleanSt, stdSt, splitSt, classesTodo, cur, filesTodo, handling,
          runs, sel1, selLast, train1, cn, cres>>

(***************************************************************************)
(* Bounds and universes                                                    *)
(***************************************************************************)
MaxRuns == 2
MaxN == 100

Roots == {"fox", "wolf"}
RootOrder == <<"fox", "wolf">>
AllNames == {"a.jpg", "b.jpg", "c.png", "d.png", "e.png"}
NameOrder == <<"a.jpg", "b.jpg", "c.png", "d.png", "e.png">>
FoxNames == {"a.jpg", "b.jpg", "c.png", "d.png"}
WolfNames == {"a.jpg", "b.jpg"}

\* What an entry of a raw class directory can be:
\*   valid    decodes, resizes and saves
\*   corrupt  Image.open / verify raises
\*   trunc    header opens and verifies, pixel data fails to load
\*   badmode  decodes, but cannot be written in the format of its name
\*   dir      a nested directory
Kinds == {"none", "valid", "corrupt", "trunc", "badmode", "dir"}

NoFile == <<>>
SrcSize == <<640, 480>>
ImageSize == <<224, 224>>
ValueError == <<"ValueError">>
Pending == <<"pending">>

EmptyRaw == [f \in AllNames |-> "none"]
EmptyDir == [f \in AllNames |-> NoFile]
EmptyTree == [c \in Roots |-> EmptyDir]
NoSel == [c \in Roots |-> {}]

(***************************************************************************)
(* os and PIL                                                              *)
(***************************************************************************)
\* os.listdir(source_dir)
RootListing(kinds) == SelectSeq(RootOrder, LAMBDA c : kinds[c] # "absent")

\* os.listdir(class_path) of a raw class directory
RawListing(d) == SelectSeq(NameOrder, LAMBDA f : d[f] # "none")

\* os.listdir(class_path) of a processed class directory
FileListing(d) == SelectSeq(NameOrder, LAMBDA f : d[f] # NoFile)

Range(s) == {s[i] : i \in 1..Len(s)}

\* the names present in a directory of image files
Files(d) == {f \in AllNames : d[f] # NoFile}

\* with Image.open(img_path) as img: img.verify()
Validates(k) == k \in {"valid", "trunc", "badmode"}

\* Variant: a save that fails leaves the empty file it had opened.
StandardizeOnePartial(k, old) ==
    IF k = "valid" THEN ImageSize
    ELSE IF k = "badmode" THEN <<0, 0>> ELSE old

\* Variant: the image is saved as decoded, without the resize.
StandardizeOneNoResize(k, old) == IF k = "valid" THEN SrcSize ELSE old

\* Image.open(img_path); img.resize(image_size); img.save(target): the new
\* content of the target name.  A save that fails leaves no file behind.
StandardizeOne(k, old) ==
    IF k \in {"valid", "badmode"}          \* open and resize succeed
    THEN IF k = "valid" THEN ImageSize ELSE old
    ELSE old

\* whether the try block of standardize_images raised
Standardizes(k) == k = "valid"

(***************************************************************************)
(* sklearn.model_selection.train_test_split                                *)
(***************************************************************************)
RECURSIVE Pow2Floor(_)
\* the largest power of two not above k (k >= 1)
Pow2Floor(k) == IF k < 2 THEN 1 ELSE 2 * Pow2Floor(k \div 2)

\* n_train of stage one: floor(train_size * n) with train_size = 0.7, computed
\* in IEEE double.  The double 0.7 is (7*2^53 - 4) / (10*2^53), so for
\* n = 10j the exact product 7j - 4j/2^53 rounds to 7j only when 4j is at most
\* half a unit in the last place below 7j, i.e. 4j <= Pow2Floor(7j) (a tie
\* rounds to the even neighbour 7j); otherwise it rounds below 7j and the
\* floor loses one.  For other n the fraction of 0.7n is at least 0.1.
FloorTrain(n) ==
    IF n > 0 /\ n % 10 = 0 /\ 4 * (n \div 10) > Pow2Floor(7 * (n \div 10))
    THEN 7 * (n \div 10) - 1
    ELSE (7 * n) \div 10

\* n_test of stage two: ceil(test_size * m), m >= 1, with
\* test_size = (1 - 0.7 - 0.2) / (0.2 + (1 - 0.7)) = 0.1.../0.5 evaluated in
\* IEEE double to 0.20000000000000007 = 1/5 + 12/(5*2^55).  The excess over
\* 1/5 survives the rounding of the product, so the ceiling is above m/5
\* also when 5 divides m.
CeilTest(m) == (m \div 5) + 1

\* The lengths <<len(train), len(val), len(test)>> for a class of n files,
\* or ValueError when a stage would return an empty train part
\* (_validate_shuffle_split).
SplitCounts(n) ==
    LET tr == FloorTrain(n)
        m  == n - tr
        te == CeilTest(m)
        va == m - te
    IN  IF tr = 0 THEN ValueError
        ELSE IF va = 0 THEN ValueError
        ELSE <<tr, va, te>>

\* rng.permutation(n) of RandomState(42): one fixed permutation per n
Perm42(n) == CHOOSE p \in [1..n -> 1..n] : \A i, j \in 1..n : i # j => p[i] # p[j]

\* Variant: stage one without random_state, any ntrain entries.
StageOneUnseeded(images, ntrain) ==
    {S \in SUBSET Range(images) : Cardinality(S) = ntrain}

\* Stage one, train_test_split(images, train_size=0.7, random_state=42):
\* the possible train lists, as sets.  The test part is the first n_test
\* entries of the permutation, the train part the n_train after them.
StageOneChoices(images, ntrain) ==
    LET n == Len(images)
        p == Perm42(n)
    IN  {{images[p[i]] : i \in (n - ntrain + 1)..n}}

\* Stage two, train_test_split(temp, test_size=...): no random_state, so the
\* test part is any ntest entries of temp.
StageTwoChoices(temp, ntest) == {S \in SUBSET temp : Cardinality(S) = ntest}

\* train_test_split returns two complementary parts: what stage one leaves
\* for temp once train is taken
TempPart(images, tr) == images \ tr

\* Variant: the whole of temp goes to val.
ValPartWhole(temp, te) == temp

\* and what stage two leaves for val once test is taken
ValPart(temp, te) == temp \ te

\* shutil.copy(src, dst): the destination directory afterwards
CopyInto(dst, src, names) ==
    [f \in AllNames |-> IF f \in names THEN src[f] ELSE dst[f]]

\* Variant: shutil.move in place of shutil.copy.
SourceAfterMove(src, names) ==
    [f \in AllNames |-> IF f \in names THEN NoFile ELSE src[f]]

\* shutil.copy(src, dst): the source directory afterwards
SourceAfterCopy(src, names) == src

(***************************************************************************)
(* Initial states                                                          *)
(***************************************************************************)
\* the raw class directory whose entries under the names ns are given by g
RawDir(ns, g) == [f \in AllNames |-> IF f \in ns THEN g[f] ELSE "none"]

\* Before the notebook runs: data/raw holds up to two entries, each a class
\* directory of arbitrary entries or a plain file; the output trees are empty.
Init ==
    /\ rawKind \in [Roots -> {"dir", "file", "absent"}]
    /\ \E gf \in [FoxNames -> Kinds], gw \in [WolfNames -> Kinds] :
         raw = [c \in Roots |->
                  IF rawKind[c] # "dir" THEN EmptyRaw
                  ELSE IF c = "fox" THEN RawDir(FoxNames, gf)
                  ELSE RawDir(WolfNames, gw)]
    /\ raw0 = raw
    /\ log = {}
    /\ procDirs = {}
    /\ proc = EmptyTree
    /\ train = EmptyTree /\ val = EmptyTree /\ test = EmptyTree
    /\ pc = "idle"
    /\ cleanSt = "new" /\ stdSt = "new" /\ splitSt = "new"
    /\ classesTodo = <<>> /\ cur = "" /\ filesTodo = <<>> /\ handling = ""
    /\ runs = 0
    /\ sel1 = NoSel /\ selLast = NoSel /\ train1 = EmptyTree
    /\ cn = 0 /\ cres = Pending

\* The standardized tree of a cleaned raw tree of valid images: what
\* clean_data and standardize_images leave behind for classes of up to
\* five images, with split_data about to run for the first time.
InitSplit ==
    /\ rawKind \in [Roots -> {"dir", "absent"}]
    /\ \E ff \in SUBSET AllNames, fw \in SUBSET AllNames :
         raw = [c \in Roots |->
                  IF rawKind[c] # "dir" THEN EmptyRaw
                  ELSE [f \in AllNames |->
                          IF f \in (IF c = "fox" THEN ff ELSE fw)
                          THEN "valid" ELSE "none"]]
    /\ raw0 = raw
    /\ log = {}
    /\ procDirs = {c \in Roots : rawKind[c] = "dir"}
    /\ proc = [c \in Roots |->
                 [f \in AllNames |-> StandardizeOne(raw[c][f], NoFile)]]
    /\ train = EmptyTree /\ val = EmptyTree /\ test = EmptyTree
    /\ pc = "idle"
    /\ cleanSt = "done" /\ stdSt = "done" /\ splitSt = "new"
    /\ classesTodo = <<>> /\ cur = "" /\ filesTodo = <<>> /\ handling = ""
    /\ runs = 0
    /\ sel1 = NoSel /\ selLast = NoSel /\ train1 = EmptyTree
    /\ cn = 0 /\ cres = Pending

\* One class of cn files about to be split; the trees play no part.
InitCount ==
    /\ rawKind = [c \in Roots |-> "absent"]
    /\ raw = [c \in Roots |-> EmptyRaw]
    /\ raw0 = raw
    /\ log = {}
    /\ procDirs = {}
    /\ proc = EmptyTree
    /\ train = EmptyTree /\ val = EmptyTree /\ test = EmptyTree
    /\ pc = "idle"
    /\ cleanSt = "new" /\ stdSt = "new" /\ splitSt = "new"
    /\ classesTodo = <<>> /\ cur = "" /\ filesTodo = <<>> /\ handling = ""
    /\ runs = 0
    /\ sel1 = NoSel /\ selLast = NoSel /\ train1 = EmptyTree
    /\ cn \in 0..MaxN /\ cres = Pending

(***************************************************************************)
(* clean_data                                                              *)
(***************************************************************************)
\* clean_data("data/raw") is called: for class_name in os.listdir(source_dir).
\* The cells run top to bottom, so cleaning happens before standardizing or
\* not at all.
CleanStart ==
    /\ pc = "idle" /\ cleanSt = "new" /\ stdSt = "new"
    /\ pc' = "clean" /\ cleanSt' = "running"
    /\ classesTodo' = RootListing(rawKind)
    /\ cur' = "" /\ filesTodo' = <<>> /\ handling' = ""
    /\ UNCHANGED <<rawKind, raw, raw0, log, procDirs, proc, train, val, test,
                   stdSt, splitSt, runs, sel1, selLast, train1, cn, cres>>

\* next iteration of the class loop: skip what is not a directory, else
\* list the class directory
CleanNextClass ==
    /\ pc = "clean" /\ filesTodo = <<>> /\ handling = ""
    /\ classesTodo # <<>>
    /\ LET c == Head(classesTodo) IN
         /\ classesTodo' = Tail(classesTodo)
         /\ IF rawKind[c] = "dir"
            THEN cur' = c /\ filesTodo' = RawListing(raw[c])
            ELSE UNCHANGED <<cur, filesTodo>>
    /\ UNCHANGED <<rawKind, raw, raw0, log, procDirs, proc, train, val, test,
                   pc, cleanSt, stdSt, splitSt, handling, runs, sel1, selLast,
                   train1, cn, cres>>

\* the log line of the except branch
RemovingLine(c, f) == <<"Removing corrupted or non-image file", c, f>>

\* Variant: the handler removes without printing.
PrintNothing(lg, c, f) == lg

\* print(f"Removing corrupted or non-image file: {img_path} ({e})")
PrintRemoving(lg, c, f) == lg \cup {RemovingLine(c, f)}

\* next iteration of the file loop: the try block, and on an exception the
\* print of the handler
CleanFile ==
    /\ pc = "clean" /\ filesTodo # <<>> /\ handling = ""
    /\ LET f == Head(filesTodo) IN
         /\ filesTodo' = Tail(filesTodo)
         /\ IF Validates(raw[cur][f])
            THEN UNCHANGED <<log, handling>>
            ELSE log' = PrintRemoving(log, cur, f) /\ handling' = f
    /\ UNCHANGED <<rawKind, raw, raw0, procDirs, proc, train, val, test, pc,
                   cleanSt, stdSt, splitSt, classesTodo, cur, runs, sel1,
                   selLast, train1, cn, cres>>

\* os.remove(img_path) in the handler; on a directory it raises, nothing
\* catches it and clean_data is left
CleanRemove ==
    /\ pc = "clean" /\ handling # ""
    /\ handling' = ""
    /\ IF raw[cur][handling] = "dir"
       THEN /\ pc' = "idle" /\ cleanSt' = "raised"
            /\ UNCHANGED raw
       ELSE /\ raw' = [raw EXCEPT ![cur][handling] = "none"]
            /\ UNCHANGED <<pc, cleanSt>>
    /\ UNCHANGED <<rawKind, raw0, log, procDirs, proc, train, val, test, stdSt,
                   splitSt, classesTodo, cur, filesTodo, runs, sel1, selLast,
                   train1, cn, cres>>

\* the class loop is exhausted: clean_data returns
CleanDone ==
    /\ pc = "clean" /\ filesTodo = <<>> /\ handling = "" /\ classesTodo = <<>>
    /\ pc' = "idle" /\ cleanSt' = "done"
    /\ UNCHANGED <<rawKind, raw, raw0, log, procDirs, proc, train, val, test,
                   stdSt, splitSt, classesTodo, cur, filesTodo, handling, runs,
                   sel1, selLast, train1, cn, cres>>

(***************************************************************************)
(* standardize_images                                                      *)
(***************************************************************************)
\* standardize_images("data/raw", "data/processed") is called, after the
\* cleaning cell returned or raised, or without it
StdStart ==
    /\ pc = "idle" /\ stdSt = "new" /\ cleanSt # "running"
    /\ pc' = "std" /\ stdSt' = "running"
    /\ classesTodo' = RootListing(rawKind)
    /\ cur' = "" /\ filesTodo' = <<>>
    /\ UNCHANGED <<rawKind, raw, raw0, log, procDirs, proc, train, val, test,
                   cleanSt, splitSt, handling, runs, sel1, selLast, train1,
                   cn, cres>>

\* next iteration of the class loop: skip what is not a directory, else
\* os.makedirs(target_class_dir, exist_ok=True) and list the class directory
StdNextClass ==
    /\ pc = "std" /\ filesTodo = <<>> /\ classesTodo # <<>>
    /\ LET c == Head(classesTodo) IN
         /\ classesTodo' = Tail(classesTodo)
         /\ IF rawKind[c] = "dir"
            THEN /\ procDirs' = procDirs \cup {c}
                 /\ cur' = c /\ filesTodo' = RawListing(raw[c])
            ELSE UNCHANGED <<procDirs, cur, filesTodo>>
    /\ UNCHANGED <<rawKind, raw, raw0, log, proc, train, val, test, pc,
                   cleanSt, stdSt, splitSt, handling, runs, sel1, selLast,
                   train1, cn, cres>>

\* the log line of the except branch
ErrorLine(c, f) == <<"Error processing", c, f>>

\* next iteration of the file loop: open, resize, save; an exception is
\* printed and the loop goes on
StdFile ==
    /\ pc = "std" /\ filesTodo # <<>>
    /\ LET f == Head(filesTodo)
           k == raw[cur][f]
       IN /\ filesTodo' = Tail(filesTodo)
          /\ proc' = [proc EXCEPT ![cur][f] = StandardizeOne(k, @)]
          /\ log' = IF Standardizes(k) THEN log
                    ELSE log \cup {ErrorLine(cur, f)}
    /\ UNCHANGED <<rawKind, raw, raw0, procDirs, train, val, test, pc,
                   cleanSt, stdSt, splitSt, classesTodo, cur, handling, runs,
                   sel1, selLast, train1, cn, cres>>

\* the class loop is exhausted: standardize_images returns
StdDone ==
    /\ pc = "std" /\ filesTodo = <<>> /\ classesTodo = <<>>
    /\ pc' = "idle" /\ stdSt' = "done"
    /\ UNCHANGED <<rawKind, raw, raw0, log, procDirs, proc, train, val, test,
                   cleanSt, splitSt, classesTodo, cur, filesTodo, handling,
                   runs, sel1, selLast, train1, cn, cres>>

(***************************************************************************)
(* split_data                                                              *)
(***************************************************************************)
\* os.listdir(source_dir) of data/processed
ProcListing(dirs) == SelectSeq(RootOrder, LAMBDA c : c \in dirs)

\* split_data("data/processed", "data/train", "data/val", "data/test") is
\* called, for the first time or again after it has returned
SplitStart ==
    /\ pc = "idle" /\ stdSt = "done"
    /\ splitSt = "new" \/ (splitSt = "done" /\ runs < MaxRuns)
    /\ pc' = "split" /\ splitSt' = "running"
    /\ runs' = runs + 1
    /\ selLast' = NoSel
    /\ classesTodo' = ProcListing(procDirs)
    /\ UNCHANGED <<rawKind, raw, raw0, log, procDirs, proc, train, val, test,
                   cleanSt, stdSt, cur, filesTodo, handling, sel1, train1,
                   cn, cres>>

\* one iteration of the class loop: list the class, split the list in two
\* stages and copy the three parts; a ValueError of train_test_split leaves
\* split_data before anything of the class is copied
SplitClass ==
    /\ pc = "split" /\ classesTodo # <<>>
    /\ LET c      == Head(classesTodo)
           images == FileListing(proc[c])
           counts == SplitCounts(Len(images))
       IN /\ classesTodo' = Tail(classesTodo)
          /\ cur' = c
          /\ IF counts = ValueError
             THEN /\ pc' = "idle" /\ splitSt' = "raised"
                  /\ UNCHANGED <<proc, train, val, test, sel1, selLast>>
             ELSE \E tr \in StageOneChoices(images, counts[1]) :
                  \E te \in StageTwoChoices(TempPart(Range(images), tr),
                                            counts[3]) :
                    LET va == ValPart(TempPart(Range(images), tr), te) IN
                    /\ train' = [train EXCEPT ![c] = CopyInto(@, proc[c], tr)]
                    /\ val'   = [val EXCEPT ![c] = CopyInto(@, proc[c], va)]
                    /\ test'  = [test EXCEPT ![c] = CopyInto(@, proc[c], te)]
                    /\ proc'  = [proc EXCEPT ![c] =
                                   SourceAfterCopy(@, Range(images))]
                    /\ selLast' = [selLast EXCEPT ![c] = tr]
                    /\ sel1' = IF runs = 1 THEN [sel1 EXCEPT ![c] = tr]
                               ELSE sel1
                    /\ UNCHANGED <<pc, splitSt>>
    /\ UNCHANGED <<rawKind, raw, raw0, log, procDirs, cleanSt, stdSt,
                   filesTodo, handling, runs, train1, cn, cres>>

\* the class loop is exhausted: split_data returns
SplitDone ==
    /\ pc = "split" /\ classesTodo = <<>>
    /\ pc' = "idle" /\ splitSt' = "done"
    /\ train1' = IF runs = 1 THEN train ELSE train1
    /\ UNCHANGED <<rawKind, raw, raw0, log, procDirs, proc, train, val, test,
                   cleanSt, stdSt, classesTodo, cur, filesTodo, handling,
                   runs, sel1, selLast, cn, cres>>

\* the two train_test_split calls of one class of cn files, lengths only
CountSplit ==
    /\ cres = Pending
    /\ cres' = SplitCounts(cn)
    /\ UNCHANGED <<rawKind, raw, raw0, log, procDirs, proc, train, val, test,
                   pc, cleanSt, stdSt, splitSt, classesTodo, cur, filesTodo,
                   handling, runs, sel1, selLast, train1, cn>>

(***************************************************************************)
(* Specifications                                                          *)
(***************************************************************************)
Next ==
    \/ CleanStart \/ CleanNextClass \/ CleanFile \/ CleanRemove \/ CleanDone
    \/ StdStart \/ StdNextClass \/ StdFile \/ StdDone
    \/ SplitStart \/ SplitClass \/ SplitDone

\* the notebook run on an arbitrary small raw tree
Spec == Init /\ [][Next]_vars

NextSplit == SplitStart \/ SplitClass \/ SplitDone

\* split_data run, and run again, on a standardized tree
SpecSplit == InitSplit /\ [][NextSplit]_vars

NextCount == CountSplit

\* the list lengths split_data produces for every class size up to MaxN
SpecCount == InitCount /\ [][NextCount]_vars

(***************************************************************************)
(* Properties                                                              *)
(***************************************************************************)
ClassDirs == {c \in Roots : rawKind[c] = "dir"}
RawNames(d) == {f \in AllNames : d[f] # "none"}

\* the three output directories of class c hold pairwise different names
Disjoint3(c) ==
    /\ Files(train[c]) \cap Files(val[c]) = {}
    /\ Files(train[c]) \cap Files(test[c]) = {}
    /\ Files(val[c]) \cap Files(test[c]) = {}

Union3(c) == Files(train[c]) \cup Files(val[c]) \cup Files(test[c])

\* C1: after one completed run of split_data into empty output trees, for
\* every class directory of the source the names under train, val and test
\* are pairwise disjoint and together are the names of the source class.
C1_SplitPartition ==
    (splitSt = "done" /\ runs = 1) =>
        \A c \in procDirs : Disjoint3(c) /\ Union3(c) = Files(proc[c])

\* a completed first run over a class of five files and a class of four
C1_Witness ==
    /\ splitSt = "done" /\ runs = 1
    /\ Cardinality(Files(proc["fox"])) = 5
    /\ Cardinality(Files(proc["wolf"])) = 4
    /\ Files(test["fox"]) # {} /\ Files(val["wolf"]) # {}

Abs(x) == IF x < 0 THEN -x ELSE x

\* C2: for a class of N files split with the default ratios, the three
\* lengths are within the rounding of the split function (less than one
\* file per stage, so less than two files over the two stages) of 0.70 N,
\* 0.20 N and 0.10 N.
C2_Proportions ==
    (cres # Pending /\ cres # ValueError) =>
        /\ Abs(10 * cres[1] - 7 * cn) < 20
        /\ Abs(10 * cres[2] - 2 * cn) < 20
        /\ Abs(10 * cres[3] - 1 * cn) < 20

\* data/raw/fox = {a.jpg valid, b.jpg corrupt, c.png valid} and nothing else
FoxScenario ==
    /\ rawKind = [c \in Roots |-> IF c = "fox" THEN "dir" ELSE "absent"]
    /\ raw0 = [c \in Roots |->
                 IF c = "fox"
                 THEN [f \in AllNames |->
                         IF f \in {"a.jpg", "c.png"} THEN "valid"
                         ELSE IF f = "b.jpg" THEN "corrupt" ELSE "none"]
                 ELSE EmptyRaw]

\* C3: from the fox scenario, clean_data, standardize_images and split_data
\* run in this order each run to completion; cleaning leaves {a.jpg, c.png}
\* in data/raw/fox, standardizing leaves {a.jpg, c.png} in
\* data/processed/fox, and splitting leaves train, val and test of fox
\* pairwise disjoint with union {a.jpg, c.png}.
C3_EndToEnd ==
    FoxScenario =>
        /\ cleanSt # "raised"
        /\ cleanSt = "done" =>
             /\ RawNames(raw["fox"]) = {"a.jpg", "c.png"}
             /\ stdSt # "raised" /\ splitSt # "raised"
             /\ stdSt = "done" =>
                  /\ Files(proc["fox"]) = {"a.jpg", "c.png"}
                  /\ \A f \in Files(proc["fox"]) : proc["fox"][f] = ImageSize
             /\ splitSt = "done" =>
                  /\ Disjoint3("fox")
                  /\ Union3("fox") = {"a.jpg", "c.png"}

\* C4: every name that left a raw class directory failed validation and had
\* its line printed before it was removed, a name that validates is never
\* removed or changed, and once clean_data has returned every name that
\* failed validation is gone and only validating names remain.
C4_CleanRemovesInvalidOnly ==
    \A c \in ClassDirs : \A f \in AllNames :
        /\ raw[c][f] # raw0[c][f] =>
             /\ raw[c][f] = "none"
             /\ ~Validates(raw0[c][f])
             /\ RemovingLine(c, f) \in log
        /\ cleanSt = "done" =>
             /\ (raw0[c][f] # "none" /\ ~Validates(raw0[c][f])) =>
                  (raw[c][f] = "none" /\ RemovingLine(c, f) \in log)
             /\ raw[c][f] # "none" => Validates(raw[c][f])

\* clean_data has returned after removing a file of one class and keeping a
\* valid one next to it
C4_Witness ==
    /\ cleanSt = "done"
    /\ \E c \in ClassDirs : \E f, g \in AllNames :
         /\ raw0[c][f] = "corrupt" /\ raw[c][f] = "none"
         /\ raw0[c][g] = "valid" /\ raw[c][g] = "valid"

\* C5: a file that standardize_images fails to decode, resize or save costs
\* only that file: its error line is printed, nothing is stored under its
\* name in the target class, the remaining files of the class and of the
\* later classes are still standardized, and the source is not touched
\* while the pass runs.
C5_StdFailureIsPerFile ==
    /\ [](stdSt = "done" =>
            \A c \in ClassDirs : \A f \in RawNames(raw[c]) :
               IF Standardizes(raw[c][f])
               THEN proc[c][f] # NoFile
               ELSE ErrorLine(c, f) \in log /\ proc[c][f] = NoFile)
    /\ [][stdSt = "running" => (raw' = raw /\ rawKind' = rawKind)]_vars

\* standardize_images has returned after a failure in the first class was
\* followed by successes later in that class and in the next class
C5_Witness ==
    /\ stdSt = "done"
    /\ raw["fox"]["a.jpg"] = "badmode" /\ proc["fox"]["a.jpg"] = NoFile
    /\ raw["fox"]["b.jpg"] = "trunc" /\ raw["fox"]["c.png"] = "corrupt"
    /\ proc["fox"]["d.png"] = ImageSize
    /\ proc["wolf"]["a.jpg"] = ImageSize

\* C6: once standardize_images has returned into an empty target, the class
\* directories of the target are those of the source, and each target class
\* holds exactly the source files that were processed, under their names,
\* each of the configured size.
C6_StdMirrorsSource ==
    stdSt = "done" =>
        /\ procDirs = ClassDirs
        /\ \A c \in Roots : \A f \in AllNames :
             proc[c][f] = IF c \in ClassDirs /\ Standardizes(raw[c][f])
                          THEN ImageSize ELSE NoFile

\* standardize_images has returned with one class mirrored, one root entry
\* that is no directory left out, and a failing file left out
C6_Witness ==
    /\ stdSt = "done"
    /\ rawKind["fox"] = "dir" /\ rawKind["wolf"] = "file"
    /\ procDirs = {"fox"}
    /\ proc["fox"]["a.jpg"] = ImageSize
    /\ raw["fox"]["b.jpg"] = "trunc" /\ proc["fox"]["b.jpg"] = NoFile

C8_TrainReproduced ==
    (splitSt = "done" /\ runs >= 2) => (selLast = sel1 /\ train = train1)

\* a second run has returned whose val/test boundary differs from the first
C8_Witness ==
    /\ splitSt = "done" /\ runs = 2
    /\ sel1["fox"] # {} /\ sel1["wolf"] # {}
    /\ Files(val["fox"]) \cap Files(test["fox"]) # {}

\* C9: after any number of completed runs of split_data on the unchanged
\* source into the same output trees, no name of a class is under more than
\* one of train, val and test.
C9_RerunsKeepDisjoint ==
    splitSt = "done" => \A c \in procDirs : Disjoint3(c)

\* C10: clean_data silently skips a directory wherever it meets one: a root
\* entry that is no directory is passed over, and a directory nested in a
\* class directory is not deleted, has no line printed for it and does not
\* stop the pass.
C10_DirectoriesSkipped ==
    /\ cleanSt # "raised"
    /\ \A c \in Roots : rawKind[c] = "file" => raw[c] = EmptyRaw
    /\ \A c \in ClassDirs : \A f \in AllNames :
         raw0[c][f] = "dir" =>
            (raw[c][f] = "dir" /\ RemovingLine(c, f) \notin log)

====
